---- MODULE Spec2Model ----
(***************************************************************************)
(* Model of megakolmio: the exhaustive backtracking search that places the *)
(* nine triangular cards of the deck on the nine board positions.          *)
(*                                                                         *)
(* The heap of the C program is modelled explicitly: GameState objects and *)
(* PlayedCard records live at addresses, replicate() allocates, delete()   *)
(* frees, and the recursion of solve() is an explicit stack of frames.     *)
(***************************************************************************)
EXTENDS Integers, Sequences, FiniteSets, TLC

VARIABLES
    status,     \* position of main(): "start", "running", "returned", "done", "exited"
    stack,      \* activation records of solve(), innermost last
    heap,       \* [gs |-> GameState objects by address, pcs |-> PlayedCard records by address]
    out,        \* the lines printed on standard output so far
    emitted,    \* for every printed line, the board that was passed to output()
    lang,       \* which rendering runs: "c" or "cpp"
    namePad,    \* C only: what printf("%s") finds behind the two characters of a name
    nmap,       \* C++ only: the unordered_map NEIGHBORMAP, as its sequence of entries in iteration order
    q           \* the query unit: inputs and result of a single call of a leaf function

vars == <<status, stack, heap, out, emitted, lang, namePad, nmap, q>>

---------------------------------------------------------------------------
(* Static tables *)

NMAP_SIZE == 9
NMAP_FIRST == 1
NMAP_SECOND == 2
NMAP_COMMON_EDGE == 3
EDGES_IN_CARD == 3
CARDS_IN_DECK == 9
SintModulus == 256

\* Row i of the C table is NEIGHBORMAP[i + 1]
NEIGHBORMAP ==
    << <<0, 1, 0>>,
       <<0, 2, 1>>,
       <<0, 6, 2>>,
       <<1, 5, 2>>,
       <<2, 3, 2>>,
       <<3, 4, 0>>,
       <<3, 7, 1>>,
       <<4, 5, 1>>,
       <<5, 8, 0>> >>

\* PRINTORDER[i] of the C table is PRINTORDER[i + 1]
PRINTORDER == <<6, 2, 0, 1, 7, 3, 4, 5, 8>>

\* Deck[i] of the C table is Deck[i + 1]; an edge label is its two characters
Deck ==
    << [name |-> "P1", edges |-> << <<"F","H">>, <<"F","B">>, <<"D","H">> >>],
       [name |-> "P2", edges |-> << <<"D","H">>, <<"F","B">>, <<"R","B">> >>],
       [name |-> "P3", edges |-> << <<"D","H">>, <<"F","B">>, <<"F","H">> >>],
       [name |-> "P4", edges |-> << <<"D","H">>, <<"D","B">>, <<"F","B">> >>],
       [name |-> "P5", edges |-> << <<"D","H">>, <<"R","B">>, <<"D","B">> >>],
       [name |-> "P6", edges |-> << <<"R","B">>, <<"F","B">>, <<"R","H">> >>],
       [name |-> "P7", edges |-> << <<"F","B">>, <<"R","H">>, <<"F","H">> >>],
       [name |-> "P8", edges |-> << <<"R","H">>, <<"D","H">>, <<"R","B">> >>],
       [name |-> "P9", edges |-> << <<"F","B">>, <<"D","B">>, <<"D","H">> >>] >>

Positions == 0 .. (CARDS_IN_DECK - 1)
Rotations == 0 .. (EDGES_IN_CARD - 1)
CardIds   == 0 .. (CARDS_IN_DECK - 1)

\* A null pointer to a GameState or a PlayedCard (addresses start at 1)
NULL == 0
\* A null pointer to a Card (cards are identified by their index in Deck)
NOCARD == -1

---------------------------------------------------------------------------
(* The heap *)

\* The address malloc/calloc hands out: the lowest one not in use
Fresh(used) ==
    CHOOSE a \in 1 .. (Cardinality(used) + 1) :
        a \notin used /\ \A b \in 1 .. (a - 1) : b \in used

EmptyHeap == [gs |-> <<>>, pcs |-> <<>>]

\* calloc(1, sizeof(GameState)): every field zero
ZeroGameState ==
    [nextOnBoard |-> 0, topOfTheDeck |-> 0,
     cardsOnBoard |-> [i \in Positions |-> NULL]]

AllocGameState(h, value) ==
    LET a == Fresh(DOMAIN h.gs)
    IN  [h |-> [h EXCEPT !.gs = (a :> value) @@ h.gs], ret |-> a]

AllocPlayedCard(h, value) ==
    LET a == Fresh(DOMAIN h.pcs)
    IN  [h |-> [h EXCEPT !.pcs = (a :> value) @@ h.pcs], ret |-> a]

Restrict(f, S) == [x \in S |-> f[x]]

---------------------------------------------------------------------------
(* PlayedCard *)

\* What a call that can end the process gives back: exited is TRUE when the
\* call printed the error and called exit(0), undefined is TRUE when the call
\* read through a null pointer, and ret is the returned value
Returned(v) == [exited |-> FALSE, undefined |-> FALSE, ret |-> v]
Exited(v) == [exited |-> TRUE, undefined |-> FALSE, ret |-> v]
Undefined(v) == [exited |-> FALSE, undefined |-> TRUE, ret |-> v]

\* C: getCommonEdge(this, other), on the positions of the two records
RECURSIVE getCommonEdgeFrom(_, _, _)
getCommonEdgeFrom(thisPos, otherPos, i) ==
    IF i < NMAP_SIZE
    THEN IF /\ NEIGHBORMAP[i + 1][NMAP_FIRST] = thisPos
            /\ NEIGHBORMAP[i + 1][NMAP_SECOND] = otherPos
         THEN Returned(NEIGHBORMAP[i + 1][NMAP_COMMON_EDGE])
         ELSE getCommonEdgeFrom(thisPos, otherPos, (i + 1) % SintModulus)
    ELSE Exited(0)

\* Mutant: the scan of the table starts at its second row
getCommonEdge_SkipsFirstRow(thisPos, otherPos) == getCommonEdgeFrom(thisPos, otherPos, 1)

getCommonEdge(thisPos, otherPos) == getCommonEdgeFrom(thisPos, otherPos, 0)

\* C++: std::to_string of a small unsigned value, as its decimal digits
DigitChar == <<"0", "1", "2", "3", "4", "5", "6", "7", "8", "9">>

RECURSIVE to_string(_)
to_string(n) ==
    IF n < 10 THEN <<DigitChar[n + 1]>>
    ELSE to_string(n \div 10) \o <<DigitChar[(n % 10) + 1]>>

\* C++: ch - '0' for a digit character
DigitValue(ch) == CHOOSE d \in 0 .. 9 : DigitChar[d + 1] = ch

\* C++: the initializer list of the unordered_map NEIGHBORMAP; a key is the
\* sequence of its characters
NeighborEntries ==
    << [key |-> <<"0", "1">>, val |-> 0],
       [key |-> <<"0", "2">>, val |-> 1],
       [key |-> <<"0", "6">>, val |-> 2],
       [key |-> <<"1", "5">>, val |-> 2],
       [key |-> <<"2", "3">>, val |-> 2],
       [key |-> <<"3", "4">>, val |-> 0],
       [key |-> <<"3", "7">>, val |-> 1],
       [key |-> <<"4", "5">>, val |-> 1],
       [key |-> <<"5", "8">>, val |-> 0] >>

HasKey(nm, key) == \E i \in 1 .. Len(nm) : nm[i].key = key

InsertAt(s, at, e) ==
    LET k == IF at > Len(s) + 1 THEN Len(s) + 1 ELSE at
    IN  SubSeq(s, 1, k - 1) \o <<e>> \o SubSeq(s, k, Len(s))

\* C++: NEIGHBORMAP[key]. operator[] of unordered_map returns the mapped value
\* and, for a key that is absent, first inserts it with the value 0; `at` is
\* the place the new entry takes in the iteration order, which is unspecified.
MapSubscript(nm, key, at) ==
    IF HasKey(nm, key)
    THEN [nm |-> nm,
          ret |-> nm[CHOOSE i \in 1 .. Len(nm) : nm[i].key = key].val]
    ELSE [nm |-> InsertAt(nm, at, [key |-> key, val |-> 0]), ret |-> 0]

\* Mutant: the receiver has to carry the head side of the shape
EdgesInterlock_HeadFirst(e1, e2) == e1[1] = e2[1] /\ e1[2] = "H" /\ e2[2] = "B"

\* Mutant: the orientation characters are not compared
EdgesInterlock_FamilyOnly(e1, e2) == e1[1] = e2[1]

\* The comparison of the two edge labels that both renderings end with
EdgesInterlock(e1, e2) == e1[1] = e2[1] /\ e1[2] # e2[2]

\* The edge of a card that lies at slot common_edge once the card is rotated
RotatedEdge(card, common_edge, rotation) ==
    Deck[card + 1].edges[((common_edge + rotation) % EDGES_IN_CARD) + 1]

\* C: matchesNeighbor(this, other) on two PlayedCard records. Only this->card
\* is tested against NULL; other->card->edges is read whatever other->card is.
matchesNeighbor(this, other) ==
    IF this.card = NOCARD THEN Returned(FALSE)
    ELSE LET common_edge == getCommonEdge(this.position, other.position)
         IN  IF common_edge.exited THEN Exited(FALSE)
             ELSE IF other.card = NOCARD THEN Undefined(FALSE)
             ELSE Returned(EdgesInterlock(
                      RotatedEdge(this.card, common_edge.ret, this.rotation),
                      RotatedEdge(other.card, common_edge.ret, other.rotation)))

\* C++: PlayedCard::matchesNeighbor(other); it cannot exit, but the lookup can
\* grow the map. The result is [nm |-> the map after the call, ret |-> the
\* flag, undefined |-> other->mCard was read while NULL].
matchesNeighborCpp(nm, this, other, at) ==
    IF this.card = NOCARD THEN [nm |-> nm, undefined |-> FALSE, ret |-> FALSE]
    ELSE LET common_edge ==
                 MapSubscript(nm, to_string(this.position) \o to_string(other.position), at)
         IN  IF other.card = NOCARD
             THEN [nm |-> common_edge.nm, undefined |-> TRUE, ret |-> FALSE]
             ELSE [nm  |-> common_edge.nm,
                   undefined |-> FALSE,
                   ret |-> EdgesInterlock(
                          RotatedEdge(this.card, common_edge.ret, this.rotation),
                          RotatedEdge(other.card, common_edge.ret, other.rotation))]

\* Mutant: rotate gives up one rotation early
rotate_StopsAtOne(this) ==
    IF this.rotation >= 1
    THEN [card |-> this, ret |-> FALSE]
    ELSE [card |-> [this EXCEPT !.rotation = (this.rotation + 1) % SintModulus],
          ret |-> TRUE]

\* Mutant: rotate wraps from rotation 2 back to 0 and never reports exhaustion
rotate_Wraps(this) ==
    [card |-> [this EXCEPT !.rotation = (this.rotation + 1) % EDGES_IN_CARD],
     ret |-> TRUE]

\* bool rotate(PlayedCard*): the record after the call and the returned flag
rotate(this) ==
    IF this.rotation >= 2
    THEN [card |-> this, ret |-> FALSE]
    ELSE [card |-> [this EXCEPT !.rotation = (this.rotation + 1) % SintModulus],
          ret |-> TRUE]

---------------------------------------------------------------------------
(* GameState *)

RECURSIVE replicateFrom(_, _, _, _)
replicateFrom(h, this, newstate, i) ==
    IF i < CARDS_IN_DECK /\ h.gs[this].cardsOnBoard[i] # NULL
    THEN LET a == AllocPlayedCard(h, h.pcs[h.gs[this].cardsOnBoard[i]])
         IN  replicateFrom([a.h EXCEPT !.gs[newstate].cardsOnBoard[i] = a.ret],
                           this, newstate, (i + 1) % SintModulus)
    ELSE h

\* Mutant: a shallow copy, the new board points at the receiver's records
replicate_Shallow(h, this) == AllocGameState(h, h.gs[this])

\* GameState* replicate(GameState*): [h |-> heap after, ret |-> the copy]
replicate(h, this) ==
    LET a == AllocGameState(h, [ZeroGameState EXCEPT
                 !.nextOnBoard = h.gs[this].nextOnBoard,
                 !.topOfTheDeck = h.gs[this].topOfTheDeck])
    IN  [h |-> replicateFrom(a.h, this, a.ret, 0), ret |-> a.ret]

\* Mutant: the board is freed and its placement records are not
delete_LeavesRecords(h, this) ==
    [gs  |-> Restrict(h.gs, DOMAIN h.gs \ {this}),
     pcs |-> h.pcs]

\* void delete(GameState*): the heap after the call
delete(h, this) ==
    LET freed == {h.gs[this].cardsOnBoard[i] : i \in Positions} \ {NULL}
    IN  [gs  |-> Restrict(h.gs, DOMAIN h.gs \ {this}),
         pcs |-> Restrict(h.pcs, DOMAIN h.pcs \ freed)]

RECURSIVE isSolvedFrom(_, _, _, _)
isSolvedFrom(h, this, partial, i) ==
    IF i < NMAP_SIZE
    THEN LET c1 == h.gs[this].cardsOnBoard[NEIGHBORMAP[i + 1][NMAP_FIRST]]
             c2 == h.gs[this].cardsOnBoard[NEIGHBORMAP[i + 1][NMAP_SECOND]]
         IN  IF c1 = NULL \/ c2 = NULL
             THEN IF partial
                  THEN isSolvedFrom(h, this, partial, (i + 1) % SintModulus)
                  ELSE Returned(FALSE)
             ELSE LET m == matchesNeighbor(h.pcs[c1], h.pcs[c2])
                  IN  IF m.exited THEN Exited(FALSE)
                      ELSE IF m.undefined THEN Undefined(FALSE)
                      ELSE IF ~m.ret THEN Returned(FALSE)
                      ELSE isSolvedFrom(h, this, partial, (i + 1) % SintModulus)
    ELSE Returned(TRUE)

\* Mutant: the loop over the table starts at its second row
isSolved_SkipsFirstRow(h, this, partial) == isSolvedFrom(h, this, partial, 1)

\* Mutant: the two branches taken on an empty side are swapped
isSolved_SwappedBranches(h, this, partial) == isSolvedFrom(h, this, ~partial, 0)

\* C: bool isSolved(GameState*, bool partial)
isSolved(h, this, partial) == isSolvedFrom(h, this, partial, 0)

\* Mutant: an undecided adjacency ends the loop (break) instead of being
\* skipped (continue)
RECURSIVE isSolvedCppFrom_Breaks(_, _, _, _, _, _)
isSolvedCppFrom_Breaks(h, nm, this, partial, at, k) ==
    IF k <= Len(nm)
    THEN LET c1 == h.gs[this].cardsOnBoard[DigitValue(nm[k].key[1])]
             c2 == h.gs[this].cardsOnBoard[DigitValue(nm[k].key[2])]
         IN  IF c1 = NULL \/ c2 = NULL
             THEN [nm |-> nm, undefined |-> FALSE, ret |-> partial]
             ELSE LET m == matchesNeighborCpp(nm, h.pcs[c1], h.pcs[c2], at)
                  IN  IF m.undefined THEN [nm |-> m.nm, undefined |-> TRUE, ret |-> FALSE]
                      ELSE IF ~m.ret THEN [nm |-> m.nm, undefined |-> FALSE, ret |-> FALSE]
                      ELSE isSolvedCppFrom_Breaks(h, m.nm, this, partial, at, k + 1)
    ELSE [nm |-> nm, undefined |-> FALSE, ret |-> TRUE]

\* C++: the range-for of GameState::isSolved over NEIGHBORMAP, standing at
\* entry k of the iteration order
RECURSIVE isSolvedCppFrom(_, _, _, _, _, _)
isSolvedCppFrom(h, nm, this, partial, at, k) ==
    IF k <= Len(nm)
    THEN LET key == nm[k].key
             n1 == DigitValue(key[1])
             n2 == DigitValue(key[2])
             c1 == h.gs[this].cardsOnBoard[n1]
             c2 == h.gs[this].cardsOnBoard[n2]
         IN  IF c1 = NULL \/ c2 = NULL
             THEN IF partial
                  THEN isSolvedCppFrom(h, nm, this, partial, at, k + 1)
                  ELSE [nm |-> nm, undefined |-> FALSE, ret |-> FALSE]
             ELSE LET m == matchesNeighborCpp(nm, h.pcs[c1], h.pcs[c2], at)
                      \* an entry inserted before the iterator moves it along
                      here == IF Len(m.nm) > Len(nm) /\ at <= k THEN k + 1 ELSE k
                  IN  IF m.undefined THEN [nm |-> m.nm, undefined |-> TRUE, ret |-> FALSE]
                      ELSE IF ~m.ret THEN [nm |-> m.nm, undefined |-> FALSE, ret |-> FALSE]
                      ELSE isSolvedCppFrom(h, m.nm, this, partial, at, here + 1)
    ELSE [nm |-> nm, undefined |-> FALSE, ret |-> TRUE]

\* C++: bool GameState::isSolved(bool partial)
isSolvedCpp(h, nm, this, partial, at) == isSolvedCppFrom(h, nm, this, partial, at, 1)

\* What printf("%s", card->name) prints. In C name is a char[2] that holds the
\* two characters and no terminating zero, so printf reads on behind the
\* array until it finds a zero byte: that is namePad, which is empty where
\* zeroed padding follows the array. In C++ the name is a std::string.
PrintedName(card) ==
    IF lang = "c" THEN Deck[card + 1].name \o namePad ELSE Deck[card + 1].name

\* void output(GameState*): the printf calls of one line, in order
output(h, this) ==
    LET name(i) == PrintedName(h.pcs[h.gs[this].cardsOnBoard[PRINTORDER[i + 1]]].card)
        item(i) == IF i < CARDS_IN_DECK - 1 THEN <<name(i), ",">> ELSE <<name(i)>>
        items[i \in 0 .. CARDS_IN_DECK] ==
            IF i = CARDS_IN_DECK THEN <<>> ELSE item(i) \o items[i + 1]
    IN  <<"[">> \o items[0] \o <<"]\n">>

\* C++: void GameState::output(): what is written to cout, in order; the
\* names are std::string objects and end where they end
outputCpp(h, this) ==
    LET name(i) == Deck[h.pcs[h.gs[this].cardsOnBoard[PRINTORDER[i + 1]]].card + 1].name
        item(i) == IF i < CARDS_IN_DECK - 1 THEN <<name(i), ",">> ELSE <<name(i)>>
        items[i \in 0 .. CARDS_IN_DECK] ==
            IF i = CARDS_IN_DECK THEN <<>> ELSE item(i) \o items[i + 1]
    IN  <<"[">> \o items[0] \o <<"]", "\n">>

\* Mutant: the scan stops one short of the most recently filled position
isCardOnBoard_SkipsLast(h, this, value) ==
    \E i \in Positions :
        /\ i + 1 < h.gs[this].nextOnBoard
        /\ h.gs[this].cardsOnBoard[i] # NULL
        /\ h.pcs[h.gs[this].cardsOnBoard[i]].card = value

\* bool isCardOnBoard(GameState*, const Card*)
isCardOnBoard(h, this, value) ==
    \E i \in Positions :
        /\ h.gs[this].cardsOnBoard[i] # NULL
        /\ h.pcs[h.gs[this].cardsOnBoard[i]].card # NOCARD
        /\ h.pcs[h.gs[this].cardsOnBoard[i]].card = value

RECURSIVE nextFromDeckFrom(_, _, _)
nextFromDeckFrom(h, this, i) ==
    IF i < CARDS_IN_DECK
    THEN IF ~isCardOnBoard(h, this, i)
         THEN [h |-> [h EXCEPT !.gs[this].topOfTheDeck = i], ret |-> i]
         ELSE nextFromDeckFrom(h, this, (i + 1) % SintModulus)
    ELSE [h |-> h, ret |-> NOCARD]

\* Mutant: the scan starts at index 0 instead of at the deck cursor
nextFromDeck_FromZero(h, this) ==
    IF h.gs[this].topOfTheDeck >= CARDS_IN_DECK
    THEN [h |-> h, ret |-> NOCARD]
    ELSE nextFromDeckFrom(h, this, 0)

\* const Card* nextFromDeck(GameState*): [h |-> heap after, ret |-> the card]
nextFromDeck(h, this) ==
    IF h.gs[this].topOfTheDeck >= CARDS_IN_DECK
    THEN [h |-> h, ret |-> NOCARD]
    ELSE nextFromDeckFrom(h, this, h.gs[this].topOfTheDeck)

\* Mutant: the card is stored and the fill index is left as it was
addNewCard_ForgetsIncrement(h, this) ==
    LET fromdeck == nextFromDeck(h, this)
    IN  IF fromdeck.ret = NOCARD THEN [h |-> fromdeck.h, ret |-> FALSE]
        ELSE LET position == fromdeck.h.gs[this].nextOnBoard
                 newcard == AllocPlayedCard(fromdeck.h,
                                [rotation |-> 0, position |-> position,
                                 card |-> fromdeck.ret])
             IN  [h |-> [newcard.h EXCEPT
                           !.gs[this].cardsOnBoard[position] = newcard.ret],
                  ret |-> TRUE]

\* Mutant: the fill index is stepped before the card is stored
addNewCard_IncrementsFirst(h, this) ==
    LET fromdeck == nextFromDeck(h, this)
    IN  IF fromdeck.ret = NOCARD THEN [h |-> fromdeck.h, ret |-> FALSE]
        ELSE LET position == (fromdeck.h.gs[this].nextOnBoard + 1) % SintModulus
                 newcard == AllocPlayedCard(fromdeck.h,
                                [rotation |-> 0, position |-> position,
                                 card |-> fromdeck.ret])
             IN  [h |-> [newcard.h EXCEPT
                           !.gs[this].cardsOnBoard[position] = newcard.ret,
                           !.gs[this].nextOnBoard = position],
                  ret |-> TRUE]

\* bool addNewCard(GameState*)
addNewCard(h, this) ==
    LET fromdeck == nextFromDeck(h, this)
    IN  IF fromdeck.ret = NOCARD THEN [h |-> fromdeck.h, ret |-> FALSE]
        ELSE LET position == fromdeck.h.gs[this].nextOnBoard
                 newcard == AllocPlayedCard(fromdeck.h,
                                [rotation |-> 0, position |-> position,
                                 card |-> fromdeck.ret])
             IN  [h |-> [newcard.h EXCEPT
                           !.gs[this].cardsOnBoard[position] = newcard.ret,
                           !.gs[this].nextOnBoard = (position + 1) % SintModulus],
                  ret |-> TRUE]

\* bool replaceCard(GameState*, PlayedCard*)
replaceCard(h, this, card) ==
    LET fromdeck == nextFromDeck(h, this)
    IN  IF fromdeck.ret = NOCARD THEN [h |-> fromdeck.h, ret |-> FALSE]
        ELSE [h |-> [fromdeck.h EXCEPT !.pcs[card].card = fromdeck.ret,
                                       !.pcs[card].rotation = 0],
              ret |-> TRUE]

\* The index getLastAdded computes, in the 8-bit unsigned type sint
LastIndex(h, this) == (h.gs[this].nextOnBoard + SintModulus - 1) % SintModulus

\* PlayedCard* getLastAdded(GameState*); an index outside the array is a
\* read out of bounds, reported by OutOfBounds and answered with NULL here
OutOfBounds(h, this) == LastIndex(h, this) \notin Positions

getLastAdded(h, this) ==
    IF OutOfBounds(h, this) THEN NULL
    ELSE h.gs[this].cardsOnBoard[LastIndex(h, this)]

\* Mutant: first() keeps the receiver's deck cursor instead of resetting it
first_KeepsCursor(h, this) ==
    LET r == replicate(h, this)
        a == addNewCard(r.h, r.ret)
    IN  IF ~a.ret
        THEN [h |-> delete(a.h, r.ret), ret |-> NULL]
        ELSE [h |-> a.h, ret |-> r.ret]

\* GameState* first(GameState*): [h |-> heap after, ret |-> successor or NULL]
first(h, this) ==
    LET r == replicate(h, this)
        newstate == r.ret
        a == addNewCard([r.h EXCEPT !.gs[newstate].topOfTheDeck = 0], newstate)
    IN  IF ~a.ret
        THEN [h |-> delete(a.h, newstate), ret |-> NULL]
        ELSE [h |-> a.h, ret |-> newstate]

\* Mutant: next() rescans the deck from index 0 when the rotations run out
next_RescansDeck(h, this) ==
    LET r == replicate(h, this)
        newstate == r.ret
        card == getLastAdded(r.h, newstate)
        rot == rotate(r.h.pcs[card])
    IN  IF rot.ret
        THEN [h |-> [r.h EXCEPT !.pcs[card] = rot.card], ret |-> newstate]
        ELSE LET rc == replaceCard([r.h EXCEPT !.gs[newstate].topOfTheDeck = 0],
                                   newstate, card)
             IN  IF ~rc.ret
                 THEN [h |-> delete(rc.h, newstate), ret |-> NULL]
                 ELSE [h |-> rc.h, ret |-> newstate]

\* GameState* next(GameState*): [h |-> heap after, ret |-> successor or NULL]
next(h, this) ==
    LET r == replicate(h, this)
        newstate == r.ret
        card == getLastAdded(r.h, newstate)
        rot == rotate(r.h.pcs[card])
    IN  IF rot.ret
        THEN [h |-> [r.h EXCEPT !.pcs[card] = rot.card], ret |-> newstate]
        ELSE LET rc == replaceCard(r.h, newstate, card)
             IN  IF ~rc.ret
                 THEN [h |-> delete(rc.h, newstate), ret |-> NULL]
                 ELSE [h |-> rc.h, ret |-> newstate]

---------------------------------------------------------------------------
(* The driver: main() and the recursion of solve() *)

\* main()'s frame holds the root board in game; a solve() frame holds the
\* parameter game and the locals newstate and tempstate. pc is the statement
\* the frame executes next.
Frame(game, pc) == [game |-> game, newstate |-> NULL, tempstate |-> NULL, pc |-> pc]

Top == stack[Len(stack)]
SetTop(f) == [stack EXCEPT ![Len(stack)] = f]
Pop == SubSeq(stack, 1, Len(stack) - 1)

\* The placement at position i of board this, read through the pointers
Placement(h, this, i) ==
    LET c == h.gs[this].cardsOnBoard[i]
    IN  IF c = NULL
        THEN [present |-> FALSE, rotation |-> 0, position |-> 0, card |-> NOCARD]
        ELSE [present |-> TRUE, rotation |-> h.pcs[c].rotation,
              position |-> h.pcs[c].position, card |-> h.pcs[c].card]

\* The value of a board: its cursors and its placements
BoardOf(h, this) ==
    [nextOnBoard |-> h.gs[this].nextOnBoard,
     topOfTheDeck |-> h.gs[this].topOfTheDeck,
     cards |-> [i \in Positions |-> Placement(h, this, i)]]

\* The places a new entry of the C++ map can take during one isSolved call
InsertSlots(h, nm, this, partial) ==
    IF Len(isSolvedCpp(h, nm, this, partial, 1).nm) = Len(nm)
    THEN {1}
    ELSE 1 .. (Len(nm) + 1)

\* isSolved of the rendering that runs, as [exited, undefined, ret, nm]
isSolvedOf(h, nm, this, partial, at) ==
    IF lang = "c"
    THEN LET r == isSolved(h, this, partial)
         IN  [exited |-> r.exited, undefined |-> r.undefined, ret |-> r.ret, nm |-> nm]
    ELSE LET r == isSolvedCpp(h, nm, this, partial, at)
         IN  [exited |-> FALSE, undefined |-> r.undefined, ret |-> r.ret, nm |-> r.nm]

\* main: GameState* game = calloc(...); solve(game);
MainSolve ==
    /\ status = "start"
    /\ LET a == AllocGameState(heap, ZeroGameState)
       IN  /\ heap' = a.h
           /\ stack' = <<Frame(a.ret, "main_delete"), Frame(a.ret, "entry")>>
    /\ status' = "running"
    /\ UNCHANGED <<out, emitted, lang, namePad, nmap, q>>

\* solve: if(!isSolved(game,true)) return;
SolveEntry ==
    /\ status = "running"
    /\ Top.pc = "entry"
    /\ \E at \in InsertSlots(heap, nmap, Top.game, TRUE) :
         LET r == isSolvedOf(heap, nmap, Top.game, TRUE, at)
         IN  /\ nmap' = r.nm
             /\ IF r.exited \/ r.undefined
                THEN /\ status' = IF r.exited THEN "exited" ELSE "undefined"
                     /\ stack' = stack
                ELSE /\ status' = status
                     /\ stack' = IF r.ret THEN SetTop([Top EXCEPT !.pc = "report"])
                                 ELSE Pop
    /\ UNCHANGED <<heap, out, emitted, lang, namePad, q>>

\* solve: if(isSolved(game,false)) output(game);
SolveReport ==
    /\ status = "running"
    /\ Top.pc = "report"
    /\ \E at \in InsertSlots(heap, nmap, Top.game, FALSE) :
         LET r == isSolvedOf(heap, nmap, Top.game, FALSE, at)
         IN  /\ nmap' = r.nm
             /\ IF r.exited \/ r.undefined
                THEN /\ status' = IF r.exited THEN "exited" ELSE "undefined"
                     /\ UNCHANGED <<stack, out, emitted>>
                ELSE /\ status' = status
                     /\ stack' = SetTop([Top EXCEPT !.pc = "first"])
                     /\ IF r.ret
                        THEN /\ out' = Append(out, output(heap, Top.game))
                             /\ emitted' = Append(emitted, BoardOf(heap, Top.game))
                        ELSE UNCHANGED <<out, emitted>>
    /\ UNCHANGED <<heap, lang, namePad, q>>

\* solve: GameState *newstate = first(game);
SolveFirst ==
    /\ status = "running"
    /\ Top.pc = "first"
    /\ LET r == first(heap, Top.game)
       IN  /\ heap' = r.h
           /\ stack' = SetTop([Top EXCEPT !.newstate = r.ret, !.pc = "loop"])
    /\ UNCHANGED <<status, out, emitted, lang, namePad, nmap, q>>

\* solve: while(newstate != NULL) { solve(newstate); ...
SolveCall ==
    /\ status = "running"
    /\ Top.pc = "loop"
    /\ Top.newstate # NULL
    /\ stack' = Append(SetTop([Top EXCEPT !.pc = "next"]), Frame(Top.newstate, "entry"))
    /\ UNCHANGED <<status, heap, out, emitted, lang, namePad, nmap, q>>

\* solve: tempstate = newstate; newstate = next(newstate);
SolveNext ==
    /\ status = "running"
    /\ Top.pc = "next"
    /\ IF OutOfBounds(heap, Top.newstate)
       THEN status' = "undefined" /\ UNCHANGED <<heap, stack>>
       ELSE LET r == next(heap, Top.newstate)
            IN  /\ heap' = r.h
                /\ stack' = SetTop([Top EXCEPT !.tempstate = Top.newstate,
                                               !.newstate = r.ret,
                                               !.pc = "delete"])
                /\ status' = status
    /\ UNCHANGED <<out, emitted, lang, namePad, nmap, q>>

\* solve: delete(tempstate); }
SolveDelete ==
    /\ status = "running"
    /\ Top.pc = "delete"
    /\ heap' = delete(heap, Top.tempstate)
    /\ stack' = SetTop([Top EXCEPT !.pc = "loop"])
    /\ UNCHANGED <<status, out, emitted, lang, namePad, nmap, q>>

\* solve: the loop ends and the call returns
SolveReturn ==
    /\ status = "running"
    /\ Top.pc = "loop"
    /\ Top.newstate = NULL
    /\ stack' = Pop
    /\ UNCHANGED <<status, heap, out, emitted, lang, namePad, nmap, q>>

\* main: delete(game); and the normal exit
MainDelete ==
    /\ status = "running"
    /\ Top.pc = "main_delete"
    /\ heap' = delete(heap, Top.game)
    /\ stack' = Pop
    /\ status' = "done"
    /\ UNCHANGED <<out, emitted, lang, namePad, nmap, q>>

NoQuery == [op |-> "none"]

\* The bytes behind a name up to the first zero byte depend on the build:
\* none where the compiler lays zeroed padding behind name, some where the
\* edges pointers follow at once ("?" stands for any such run of bytes)
NamePads == {"", "?"}

\* The C program before main() runs
Init ==
    /\ status = "start"
    /\ stack = <<>>
    /\ heap = EmptyHeap
    /\ out = <<>>
    /\ emitted = <<>>
    /\ lang = "c"
    /\ namePad \in NamePads
    /\ nmap = <<>>
    /\ q = NoQuery

Next ==
    \/ MainSolve
    \/ SolveEntry
    \/ SolveReport
    \/ SolveFirst
    \/ SolveCall
    \/ SolveNext
    \/ SolveDelete
    \/ SolveReturn
    \/ MainDelete

---------------------------------------------------------------------------
(* The C++ program *)

\* How many iteration orders of the unordered_map are tried
NumOrders == 2

\* The order in which an unordered_map hands out its entries is unspecified.
\* IterationOrder(k) is a family of permutations of the nine entries: k = 0
\* is the order of the initializer list, the others stride through it.
Strides == <<1, 2, 4, 5, 7, 8>>

IterationOrder(k) ==
    [i \in 1 .. 9 |-> NeighborEntries[(((i - 1) * Strides[(k % 6) + 1] + k) % 9) + 1]]

Orders == {IterationOrder(k) : k \in 0 .. (NumOrders - 1)}

\* The C++ program before main() runs, NEIGHBORMAP constructed
InitCpp ==
    /\ status = "start"
    /\ stack = <<>>
    /\ heap = EmptyHeap
    /\ out = <<>>
    /\ emitted = <<>>
    /\ lang = "cpp"
    /\ namePad = ""
    /\ nmap \in Orders
    /\ q = NoQuery

SpecCpp == InitCpp /\ [][Next]_vars

---------------------------------------------------------------------------
(* Single calls of nextFromDeck and replaceCard on a given board *)

\* The board with the cards of the sequence cs on positions 0 .. Len(cs) - 1,
\* all at rotation 0, and the deck cursor at top, alone on the heap
RECURSIVE PlaceAll(_, _, _)
PlaceAll(h, this, cs) ==
    IF cs = <<>> THEN h
    ELSE LET position == h.gs[this].nextOnBoard
             a == AllocPlayedCard(h, [rotation |-> 0, position |-> position,
                                      card |-> Head(cs)])
         IN  PlaceAll([a.h EXCEPT !.gs[this].cardsOnBoard[position] = a.ret,
                                  !.gs[this].nextOnBoard = position + 1],
                      this, Tail(cs))

\* The members of a set of cards in ascending order
RECURSIVE Ascending(_)
Ascending(S) ==
    IF S = {} THEN <<>>
    ELSE LET m == CHOOSE x \in S : \A y \in S : x <= y
         IN  <<m>> \o Ascending(S \ {m})

BoardWith(S, top) ==
    LET a == AllocGameState(EmptyHeap, [ZeroGameState EXCEPT !.topOfTheDeck = top])
    IN  PlaceAll(a.h, a.ret, Ascending(S))

\* The board under test is the only GameState
Subject == CHOOSE g \in DOMAIN heap.gs : TRUE

InitDeck ==
    /\ status = "query"
    /\ stack = <<>>
    /\ \E S \in SUBSET CardIds, top \in CardIds : heap = BoardWith(S, top)
    /\ out = <<>>
    /\ emitted = <<>>
    /\ lang = "c"
    /\ namePad = ""
    /\ nmap = <<>>
    /\ q = NoQuery

\* One call of nextFromDeck on the board
QueryNextFromDeck ==
    /\ status = "query"
    /\ LET r == nextFromDeck(heap, Subject)
       IN  /\ heap' = r.h
           /\ q' = [op |-> "nextFromDeck", before |-> BoardOf(heap, Subject),
                    card |-> r.ret]
    /\ UNCHANGED <<status, stack, out, emitted, lang, namePad, nmap>>

\* One call of replaceCard on the last placement of the board, as next()
\* makes it when the rotations of that placement are used up
QueryReplaceCard ==
    /\ status = "query"
    /\ heap.gs[Subject].nextOnBoard >= 1
    /\ LET r == replaceCard(heap, Subject, getLastAdded(heap, Subject))
       IN  /\ heap' = r.h
           /\ q' = [op |-> "replaceCard", before |-> BoardOf(heap, Subject),
                    card |-> IF r.ret
                             THEN r.h.pcs[getLastAdded(r.h, Subject)].card
                             ELSE NOCARD]
    /\ UNCHANGED <<status, stack, out, emitted, lang, namePad, nmap>>

NextDeck == QueryNextFromDeck \/ QueryReplaceCard

SpecDeck == InitDeck /\ [][NextDeck]_vars

---------------------------------------------------------------------------
(* Single common-edge lookups, in both renderings *)

\* How many entries the lookups of one run may add to the C++ map
MaxInserted == 1

InitEdge ==
    /\ status = "query"
    /\ stack = <<>>
    /\ heap = EmptyHeap
    /\ out = <<>>
    /\ emitted = <<>>
    /\ lang \in {"c", "cpp"}
    /\ namePad = ""
    /\ nmap \in (IF lang = "c" THEN {<<>>} ELSE Orders)
    /\ q = NoQuery

\* C: one call of getCommonEdge for the positions a and b
QueryGetCommonEdge ==
    /\ status = "query"
    /\ lang = "c"
    /\ \E a \in Positions, b \in Positions :
         LET r == getCommonEdge(a, b)
         IN  /\ q' = [op |-> "common_edge", this |-> a, other |-> b,
                      exited |-> r.exited, ret |-> r.ret]
             /\ status' = IF r.exited THEN "exited" ELSE status
    /\ UNCHANGED <<stack, heap, out, emitted, lang, namePad, nmap>>

\* C++: one evaluation of NEIGHBORMAP[to_string(a) + to_string(b)]
QueryMapSubscript ==
    /\ status = "query"
    /\ lang = "cpp"
    /\ \E a \in Positions, b \in Positions :
         LET key == to_string(a) \o to_string(b)
         IN  /\ HasKey(nmap, key) \/ Len(nmap) < Len(NeighborEntries) + MaxInserted
             /\ \E at \in (IF HasKey(nmap, key) THEN {1} ELSE 1 .. (Len(nmap) + 1)) :
                  LET r == MapSubscript(nmap, key, at)
                  IN  /\ nmap' = r.nm
                      /\ q' = [op |-> "common_edge", this |-> a, other |-> b,
                               exited |-> FALSE, ret |-> r.ret]
    /\ UNCHANGED <<status, stack, heap, out, emitted, lang, namePad>>

NextEdge == QueryGetCommonEdge \/ QueryMapSubscript

SpecEdge == InitEdge /\ [][NextEdge]_vars

---------------------------------------------------------------------------
(* Single calls of matchesNeighbor, in both renderings *)

\* The ordered pairs of the topology table and the same pairs turned round
TablePairs ==
    {<<NEIGHBORMAP[i][NMAP_FIRST], NEIGHBORMAP[i][NMAP_SECOND]>> : i \in 1 .. NMAP_SIZE}

MatchPairs == TablePairs \cup {<<pr[2], pr[1]>> : pr \in TablePairs}

\* A PlayedCard may carry a card of the deck or no card (card == NULL)
CardsOrNone == CardIds \cup {NOCARD}

\* The two PlayedCard records of a call, allocated in this order
TwoPlacements(this, other) ==
    LET a == AllocPlayedCard(EmptyHeap, this)
        b == AllocPlayedCard(a.h, other)
    IN  [h |-> b.h, this |-> a.ret, other |-> b.ret]

InitMatch ==
    /\ status = "query"
    /\ stack = <<>>
    /\ out = <<>>
    /\ emitted = <<>>
    /\ lang \in {"c", "cpp"}
    /\ namePad = ""
    /\ nmap = (IF lang = "c" THEN <<>> ELSE NeighborEntries)
    /\ \E pr \in MatchPairs, c1 \in CardsOrNone, c2 \in CardsOrNone,
          r1 \in Rotations, r2 \in Rotations :
         /\ c1 = NOCARD \/ c1 # c2
         /\ LET t == TwoPlacements([rotation |-> r1, position |-> pr[1], card |-> c1],
                                   [rotation |-> r2, position |-> pr[2], card |-> c2])
            IN  /\ heap = t.h
                /\ q = [op |-> "placed", this |-> t.this, other |-> t.other]

\* What one call gives in the rendering that runs, as [exited, undefined, ret, nm]
matchesNeighborOf(nm, this, other, at) ==
    IF lang = "c"
    THEN LET r == matchesNeighbor(this, other)
         IN  [exited |-> r.exited, undefined |-> r.undefined, ret |-> r.ret, nm |-> nm]
    ELSE LET r == matchesNeighborCpp(nm, this, other, at)
         IN  [exited |-> FALSE, undefined |-> r.undefined, ret |-> r.ret, nm |-> r.nm]

\* Where a lookup made by the call may put a new entry of the C++ map
MatchSlots(nm, this, other) ==
    IF lang = "c" \/ Len(matchesNeighborCpp(nm, this, other, 1).nm) = Len(nm)
    THEN {1}
    ELSE 1 .. (Len(nm) + 1)

\* What the caller sees of a call: a read through a null pointer may end the
\* process or go on with either flag
Outcomes(r) ==
    IF r.undefined
    THEN {[crashed |-> TRUE, ret |-> FALSE]} \cup
         {[crashed |-> FALSE, ret |-> v] : v \in BOOLEAN}
    ELSE {[crashed |-> FALSE, ret |-> r.ret]}

\* One call this->matchesNeighbor(other)
QueryMatchesNeighbor ==
    /\ status = "query"
    /\ q.op = "placed"
    /\ \E at \in MatchSlots(nmap, heap.pcs[q.this], heap.pcs[q.other]) :
         LET r == matchesNeighborOf(nmap, heap.pcs[q.this], heap.pcs[q.other], at)
         IN  \E o \in Outcomes(r) :
               /\ nmap' = r.nm
               /\ q' = [op |-> "matched", this |-> q.this, other |-> q.other,
                        exited |-> r.exited, undefined |-> r.undefined,
                        crashed |-> o.crashed, ret |-> o.ret]
               /\ status' = IF r.exited THEN "exited"
                            ELSE IF o.crashed THEN "undefined" ELSE status
    /\ UNCHANGED <<stack, heap, out, emitted, lang, namePad>>

\* After a call that came back: the call the other way round,
\* other->matchesNeighbor(this)
QuerySwapped ==
    /\ status = "query"
    /\ q.op = "matched"
    /\ \E at \in MatchSlots(nmap, heap.pcs[q.other], heap.pcs[q.this]) :
         LET r == matchesNeighborOf(nmap, heap.pcs[q.other], heap.pcs[q.this], at)
         IN  \E o \in Outcomes(r) :
               /\ nmap' = r.nm
               /\ q' = [op |-> "swapped", this |-> q.this, other |-> q.other,
                        exited |-> q.exited, undefined |-> q.undefined,
                        crashed |-> q.crashed, ret |-> q.ret,
                        swapped |-> [exited |-> r.exited, undefined |-> r.undefined,
                                     crashed |-> o.crashed, ret |-> o.ret]]
               /\ status' = IF r.exited THEN "exited"
                            ELSE IF o.crashed THEN "undefined" ELSE status
    /\ UNCHANGED <<stack, heap, out, emitted, lang, namePad>>

NextMatch == QueryMatchesNeighbor \/ QuerySwapped

SpecMatch == InitMatch /\ [][NextMatch]_vars

---------------------------------------------------------------------------
(* The successors of one board: first() and then next() until it gives NULL *)

\* newstate = first(game), for any board and any deck cursor
ChainFirst ==
    /\ status = "query"
    /\ q = NoQuery
    /\ LET game == Subject
           r == first(heap, game)
       IN  /\ heap' = r.h
           /\ q' = [op |-> "chain", game |-> game, before |-> BoardOf(heap, game),
                    newstate |-> r.ret,
                    visited |-> IF r.ret = NULL THEN <<>>
                                ELSE <<r.h.pcs[getLastAdded(r.h, r.ret)]>>]
    /\ UNCHANGED <<status, stack, out, emitted, lang, namePad, nmap>>

\* tempstate = newstate; newstate = next(tempstate); delete(tempstate);
ChainNext ==
    /\ status = "query"
    /\ q.op = "chain"
    /\ q.newstate # NULL
    /\ LET tempstate == q.newstate
           r == next(heap, tempstate)
       IN  /\ heap' = delete(r.h, tempstate)
           /\ q' = [q EXCEPT !.newstate = r.ret,
                             !.visited = IF r.ret = NULL THEN @
                                         ELSE Append(@, r.h.pcs[getLastAdded(r.h, r.ret)])]
    /\ UNCHANGED <<status, stack, out, emitted, lang, namePad, nmap>>

NextChain == ChainFirst \/ ChainNext

SpecChain == InitDeck /\ [][NextChain]_vars

---------------------------------------------------------------------------
(* The C program *)

Spec == Init /\ [][Next]_vars

---------------------------------------------------------------------------
(* Vocabulary of the properties *)

\* Every GameState that is allocated
LiveStates == DOMAIN heap.gs

\* The edge-matching rule on two placements given as <<card, rotation>>,
\* for the slot of one topology entry
Interlock(a, b, slot) ==
    LET ea == Deck[a[1] + 1].edges[((slot + a[2]) % 3) + 1]
        eb == Deck[b[1] + 1].edges[((slot + b[2]) % 3) + 1]
    IN  ea[1] = eb[1] /\ ea[2] # eb[2]

\* An arrangement is a sequence of <<card, rotation>>, entry p + 1 for position p.
\* It matches when every topology entry inside it interlocks.
Matches(arr) ==
    \A i \in 1 .. 9 :
        LET e == NEIGHBORMAP[i]
        IN  (e[1] < Len(arr) /\ e[2] < Len(arr))
                => Interlock(arr[e[1] + 1], arr[e[2] + 1], e[3])

\* All matching arrangements of the first k positions with distinct cards
RECURSIVE Arrangements(_)
Arrangements(k) ==
    IF k = 0 THEN {<<>>}
    ELSE LET grown ==
                 UNION {{Append(arr, <<c, r>>) :
                            c \in {d \in 0 .. 8 : \A j \in 1 .. Len(arr) : arr[j][1] # d},
                            r \in 0 .. 2} : arr \in Arrangements(k - 1)}
         IN  {arr \in grown : Matches(arr)}

\* Every complete arrangement of the nine cards in which all nine
\* adjacencies match
AllSolutions == Arrangements(9)

\* The arrangement a recorded board shows
ArrangementOf(board) ==
    [p \in 1 .. 9 |-> <<board.cards[p - 1].card, board.cards[p - 1].rotation>>]

\* Lexicographic order on arrangements of equal length, <<card, rotation>>
\* compared card first
PairLess(x, y) == x[1] < y[1] \/ (x[1] = y[1] /\ x[2] < y[2])

LexLess(u, v) ==
    \E p \in 1 .. Len(u) :
        /\ \A j \in 1 .. (p - 1) : u[j] = v[j]
        /\ PairLess(u[p], v[p])

---------------------------------------------------------------------------
(* Properties of the search *)

\* C1: every board passed to output() has a card on all nine positions and
\* interlocks on all nine entries of the topology table.
C1_EmittedBoardsAreSolutions ==
    \A k \in 1 .. Len(emitted) :
        /\ \A p \in Positions : emitted[k].cards[p].present
        /\ \A p \in Positions : emitted[k].cards[p].card \in CardIds
        /\ Matches(ArrangementOf(emitted[k]))

C1_Witness == Len(emitted) >= 1 /\ Len(out) = Len(emitted)

\* C2: when the search has run to completion, every complete matching
\* arrangement of the nine cards has been emitted, and exactly once.
C2_EverySolutionEmittedOnce ==
    status = "done" =>
        \A sol \in AllSolutions :
            Cardinality({k \in 1 .. Len(emitted) : ArrangementOf(emitted[k]) = sol}) = 1

C2_Witness == status = "done" /\ AllSolutions # {} /\ Len(emitted) >= 2

\* How far the child of a frame is along the successor chain of its
\* position: 3 * card + rotation of the last placement, 27 past the last one
ChildIndex(g) ==
    IF g = NULL THEN 27
    ELSE LET c == heap.gs[g].cardsOnBoard[heap.gs[g].nextOnBoard - 1]
         IN  3 * heap.pcs[c].card + heap.pcs[c].rotation

\* How far one activation of solve() has come
FrameProgress(f) ==
    CASE f.pc = "entry"  -> 1
      [] f.pc = "report" -> 2
      [] f.pc = "first"  -> 3
      [] f.pc = "loop"   -> 4 + 3 * ChildIndex(f.newstate)
      [] f.pc = "next"   -> 5 + 3 * ChildIndex(f.newstate)
      [] f.pc = "delete" -> 6 + 3 * ChildIndex(f.tempstate)
      [] OTHER           -> 0

\* The progress of the whole run: main's position, then one entry per
\* nesting level of solve(); the level just above the innermost activation
\* reads 90 when the call made from there has returned, deeper levels read 0
Progress ==
    [l \in 0 .. 10 |->
        IF l = 0
        THEN CASE status = "start" -> 0 [] status = "running" -> 1 [] OTHER -> 2
        ELSE IF l + 1 <= Len(stack) THEN FrameProgress(stack[l + 1])
        ELSE IF l = Len(stack) /\ Top.pc \in {"next", "main_delete"} THEN 90
        ELSE 0]

ProgressLess(u, v) ==
    \E l \in 0 .. 10 :
        /\ \A j \in 0 .. (l - 1) : u[j] = v[j]
        /\ u[l] < v[l]

\* The guard of some action of Next holds: main can start, or the innermost
\* activation stands at a statement of solve() or main()
StepReady ==
    \/ status = "start"
    \/ /\ status = "running"
       /\ stack # <<>>
       /\ Top.pc \in {"entry", "report", "first", "loop", "next", "delete", "main_delete"}

\* C3: the search terminates: at most nine positions are ever filled, the
\* recursion is never deeper than main, the root call and nine nested calls,
\* every step moves the run strictly forward in a finite order, and until the
\* normal exit some step is always possible.
C3_Terminates ==
    /\ [](/\ Len(stack) <= 11
          /\ \A g \in LiveStates : heap.gs[g].nextOnBoard <= 9)
    /\ [][ProgressLess(Progress, Progress')]_vars
    /\ [](status = "done" \/ StepReady)

C3_Witness == status = "done" /\ stack = <<>> /\ Len(out) > 0

\* C4: the completed search has emitted at least one solution.
C4_AtLeastOneSolution == status = "done" => Len(out) >= 1

C4_Witness == status = "done" /\ Len(out) >= 1 /\ heap = EmptyHeap

\* C5: on every board that exists the cards of the filled positions are
\* pairwise distinct entries of the deck, so every emitted board carries each
\* of the nine cards, and with them each of the names P1..P9, exactly once.
C5_NoCardTwice ==
    /\ \A g \in LiveStates :
           LET filled == {p \in Positions : heap.gs[g].cardsOnBoard[p] # NULL}
               cardAt(p) == heap.pcs[heap.gs[g].cardsOnBoard[p]].card
           IN  /\ \A p \in filled : cardAt(p) \in CardIds
               /\ \A p1, p2 \in filled : p1 < p2 => cardAt(p1) # cardAt(p2)
    /\ \A k \in 1 .. Len(emitted) :
           /\ \A c \in CardIds :
                  Cardinality({p \in Positions : emitted[k].cards[p].card = c}) = 1
           /\ \A n \in {"P1", "P2", "P3", "P4", "P5", "P6", "P7", "P8", "P9"} :
                  Cardinality({p \in Positions :
                                  Deck[emitted[k].cards[p].card + 1].name = n}) = 1

C5_Witness ==
    \E g \in LiveStates : heap.gs[g].nextOnBoard = 9 /\ Len(emitted) >= 1

\* C6: the emitted boards are strictly increasing in lexicographic order of
\* ((card, rotation) at position 0, ..., at position 8), and a successor
\* derived by next() differs from its receiver only at the last filled
\* position, where it is the greater.
C6_DiscoveryOrder ==
    /\ \A k \in 1 .. (Len(emitted) - 1) :
           LexLess(ArrangementOf(emitted[k]), ArrangementOf(emitted[k + 1]))
    /\ \A d \in 1 .. Len(stack) :
           (stack[d].pc = "delete" /\ stack[d].newstate # NULL) =>
               LET a == BoardOf(heap, stack[d].tempstate)
                   b == BoardOf(heap, stack[d].newstate)
                   last == a.nextOnBoard - 1
               IN  /\ b.nextOnBoard = a.nextOnBoard
                   /\ \A p \in 0 .. (last - 1) : a.cards[p] = b.cards[p]
                   /\ PairLess(<<a.cards[last].card, a.cards[last].rotation>>,
                               <<b.cards[last].card, b.cards[last].rotation>>)

C6_Witness == Len(emitted) >= 2 /\ Top.pc = "delete" /\ Top.newstate # NULL

\* The addresses of the placement records of board g
RecordsOf(h, g) == {h.gs[g].cardsOnBoard[p] : p \in Positions} \ {NULL}

\* Board g and its placement records are after the step what they were before
Kept(g) ==
    /\ g \in DOMAIN heap'.gs
    /\ heap'.gs[g] = heap.gs[g]
    /\ \A c \in RecordsOf(heap, g) : c \in DOMAIN heap'.pcs /\ heap'.pcs[c] = heap.pcs[c]

\* C8: first() and next() leave their receiver as it was, the state they
\* return has placement records of its own, and discarding a state changes
\* no other state.
C8_ReceiverUntouched ==
    /\ [][/\ SolveFirst => Kept(Top.game)
          /\ SolveNext => Kept(Top.newstate)
          /\ SolveDelete => \A g \in LiveStates \ {Top.tempstate} : Kept(g)]_vars
    /\ [](\A g1, g2 \in LiveStates :
              g1 # g2 => RecordsOf(heap, g1) \cap RecordsOf(heap, g2) = {})

C8_Witness ==
    /\ status = "running"
    /\ Top.pc = "delete"
    /\ Top.newstate # NULL
    /\ heap.gs[Top.newstate].nextOnBoard >= 2
    /\ Placement(heap, Top.newstate, 1).rotation = 1

---------------------------------------------------------------------------
(* Properties of the C++ run and of single calls *)

\* The card names of the lines the program prints, line by line
ReferenceNames ==
    << <<"P9", "P7", "P2", "P1", "P8", "P6", "P5", "P4", "P3">>,
       <<"P3", "P1", "P4", "P5", "P9", "P2", "P7", "P6", "P8">>,
       <<"P8", "P5", "P6", "P7", "P3", "P4", "P1", "P2", "P9">>,
       <<"P1", "P3", "P7", "P6", "P5", "P9", "P4", "P8", "P2">>,
       <<"P2", "P6", "P8", "P4", "P1", "P7", "P3", "P9", "P5">>,
       <<"P5", "P4", "P9", "P3", "P2", "P8", "P6", "P7", "P1">> >>

\* The line for nine names as the build prints it
ReferenceLine(names) ==
    [i \in 1 .. 19 |->
        IF i = 1 THEN "["
        ELSE IF i = 19 THEN "]\n"
        ELSE IF i % 2 = 1 THEN ","
        ELSE IF lang = "c" THEN names[i \div 2] \o namePad ELSE names[i \div 2]]

ReferenceOutput == [k \in 1 .. 6 |-> ReferenceLine(ReferenceNames[k])]

\* C7: whatever order the C++ map is iterated in, every isSolved call of the
\* run gives the result the table order of the C rendering gives and leaves
\* the map as it is, so no step has a second outcome; and every run of a
\* build ends with the same lines in the same order.
C7_Deterministic ==
    /\ (lang = "cpp" /\ status = "running" /\ Top.pc \in {"entry", "report"}) =>
           \A partial \in BOOLEAN :
               LET r == isSolvedCpp(heap, nmap, Top.game, partial, 1)
               IN  /\ r.nm = nmap
                   /\ r.ret = isSolved(heap, Top.game, partial).ret
                   /\ ~isSolved(heap, Top.game, partial).exited
    /\ Len(out) <= Len(ReferenceOutput)
    /\ \A k \in 1 .. Len(out) : out[k] = ReferenceOutput[k]
    /\ status = "done" => out = ReferenceOutput

C7_Witness ==
    /\ status = "done"
    /\ lang = "cpp"
    /\ nmap # NeighborEntries
    /\ Len(out) = 6

\* The cards on a recorded board
CardsOn(board) == {board.cards[p].card : p \in {x \in Positions : board.cards[x].present}}

\* C9: a call of nextFromDeck, alone or inside replaceCard, returns the
\* lowest card at or above the deck cursor that is not on the board and moves
\* the cursor to it; when there is none it reports exhaustion and the cursor
\* stays. The cursor never moves back and the card was not on the board.
C9_NextUnusedCard ==
    q.op \in {"nextFromDeck", "replaceCard"} =>
        LET before == q.before
            after == BoardOf(heap, Subject)
            free == {i \in CardIds : i >= before.topOfTheDeck /\ i \notin CardsOn(before)}
        IN  /\ after.topOfTheDeck >= before.topOfTheDeck
            /\ IF free = {}
               THEN q.card = NOCARD /\ after = before
               ELSE /\ q.card \in free
                    /\ \A i \in free : q.card <= i
                    /\ q.card \notin CardsOn(before)
                    /\ after.topOfTheDeck = q.card
            /\ q.op = "nextFromDeck" => after.cards = before.cards

C9_Witness ==
    /\ q.op = "replaceCard"
    /\ q.card # NOCARD
    /\ q.card > q.before.topOfTheDeck + 1
    /\ Cardinality(CardsOn(q.before)) >= 3

\* The entry of the topology table for the ordered pair (a, b), if any
TableRows(a, b) == {i \in 1 .. 9 : NEIGHBORMAP[i][1] = a /\ NEIGHBORMAP[i][2] = b}

\* C10: a common-edge query for an ordered pair of the topology table returns
\* the slot of that entry; for every other ordered pair it signals
\* NotNeighbors and the process ends.
C10_CommonEdgeOrNotNeighbors ==
    q.op = "common_edge" =>
        IF TableRows(q.this, q.other) # {}
        THEN /\ ~q.exited
             /\ \A i \in TableRows(q.this, q.other) : q.ret = NEIGHBORMAP[i][3]
        ELSE q.exited /\ status = "exited"

\* The same statement for the C rendering alone
C10_HoldsInC == lang = "c" => C10_CommonEdgeOrNotNeighbors

---------------------------------------------------------------------------
(* C11, C17: the edge-matching rule *)

\* The first call of the query has come back to its caller
Matched == q.op \in {"matched", "swapped"} /\ ~q.exited /\ ~q.crashed

\* The slot the table gives for the positions of the first call, for pairs
\* of the table
TableSlot ==
    LET row == CHOOSE i \in 1 .. NMAP_SIZE :
                   /\ NEIGHBORMAP[i][NMAP_FIRST] = heap.pcs[q.this].position
                   /\ NEIGHBORMAP[i][NMAP_SECOND] = heap.pcs[q.other].position
    IN  NEIGHBORMAP[row][NMAP_COMMON_EDGE]

OnTablePair == <<heap.pcs[q.this].position, heap.pcs[q.other].position>> \in TablePairs

\* The label at slot (slot + rotation) mod 3 of the card of a record
EffectiveEdge(rec, slot) == Deck[rec.card + 1].edges[((slot + rec.rotation) % 3) + 1]

\* C11 as stated: whenever matchesNeighbor returned true for (p, q) on
\* adjacent positions, the call from (q, p) returns true as well.
C11_SwappedCallReturnsTrue ==
    (q.op = "swapped" /\ OnTablePair /\ ~q.undefined /\ q.ret)
        => (~q.swapped.exited /\ ~q.swapped.crashed /\ q.swapped.ret)

\* C11 amended: whenever matchesNeighbor returned true for (p, q) on a pair of
\* the table, the two labels it compared also interlock when the two
\* placements change places and the slot of the pair is kept; the call
\* matchesNeighbor(q, p) itself looks up the pair turned round, which the
\* table does not hold, and in the C program ends the process there.
C11_RuleSymmetric ==
    (Matched /\ OnTablePair /\ ~q.undefined /\ q.ret)
        => /\ EdgesInterlock(EffectiveEdge(heap.pcs[q.other], TableSlot),
                             EffectiveEdge(heap.pcs[q.this], TableSlot))
           /\ (q.op = "swapped" /\ lang = "c")
                  => (q.swapped.exited /\ status = "exited")

C11_Witness ==
    /\ q.op = "swapped" /\ OnTablePair /\ ~q.undefined /\ q.ret
    /\ lang = "c"
    /\ q.swapped.exited

\* C17 as stated: on a pair of the table matchesNeighbor returns false when
\* either placement carries no card, and otherwise returns true exactly when
\* the labels at the effective slots have the same first character and
\* different second characters.
C17_EdgeMatchingRule ==
    (q.op \in {"matched", "swapped"} /\ OnTablePair)
        => /\ ~q.exited /\ ~q.undefined /\ ~q.crashed
           /\ q.ret = IF heap.pcs[q.this].card = NOCARD \/ heap.pcs[q.other].card = NOCARD
                      THEN FALSE
                      ELSE LET e1 == EffectiveEdge(heap.pcs[q.this], TableSlot)
                               e2 == EffectiveEdge(heap.pcs[q.other], TableSlot)
                           IN  e1[1] = e2[1] /\ e1[2] # e2[2]

\* The part of C17 the code keeps: the rule for a receiver that carries no
\* card and for two placements that both carry one
C17_HoldsWhenOtherHasCard ==
    (q.op \in {"matched", "swapped"} /\ OnTablePair
        /\ (heap.pcs[q.this].card = NOCARD \/ heap.pcs[q.other].card # NOCARD))
        => /\ ~q.exited /\ ~q.undefined /\ ~q.crashed
           /\ q.ret = IF heap.pcs[q.this].card = NOCARD
                      THEN FALSE
                      ELSE LET e1 == EffectiveEdge(heap.pcs[q.this], TableSlot)
                               e2 == EffectiveEdge(heap.pcs[q.other], TableSlot)
                           IN  e1[1] = e2[1] /\ e1[2] # e2[2]

---------------------------------------------------------------------------
(* C12: the printed line *)

\* The text printed for the i-th name (i = 0..8) of the k-th line: output
\* prints "[", then name and "," in turn, then "]\n"
PrintedItem(k, i) == out[k][2 * i + 2]

\* The card the k-th emitted board holds at a position
EmittedCard(k, pos) == emitted[k].cards[pos].card

\* C12 as stated: every printed line is "[", nine card names separated by
\* "," and "]\n", and the i-th name is the name of the card at board position
\* PRINTORDER[i], not of the card placed i-th.
C12_PrintOrder ==
    \A k \in 1 .. Len(out) :
        /\ Len(out[k]) = 2 * CARDS_IN_DECK + 1
        /\ out[k][1] = "["
        /\ out[k][2 * CARDS_IN_DECK + 1] = "]\n"
        /\ \A i \in 0 .. (CARDS_IN_DECK - 1) :
               /\ PrintedItem(k, i) = Deck[EmittedCard(k, PRINTORDER[i + 1]) + 1].name
               /\ i < CARDS_IN_DECK - 1 => out[k][2 * i + 3] = ","

\* The part of C12 the C program keeps: the names come in print order, each
\* followed by whatever printf finds behind the unterminated name array
C12_PrintOrderUpToPad ==
    \A k \in 1 .. Len(out) :
        /\ Len(out[k]) = 2 * CARDS_IN_DECK + 1
        /\ \A i \in 0 .. (CARDS_IN_DECK - 1) :
               PrintedItem(k, i) =
                   Deck[EmittedCard(k, PRINTORDER[i + 1]) + 1].name \o namePad

---------------------------------------------------------------------------
(* C13: the successors at one position *)

\* The placements the chain has to visit at position k: the cards that are
\* not on the board in ascending index, each at the rotations 0, 1, 2
ExpectedVisits(before) ==
    LET k == before.nextOnBoard
        free == Ascending(CardIds \ CardsOn(before))
    IN  [j \in 1 .. (3 * Len(free)) |->
            [rotation |-> (j - 1) % 3, position |-> k, card |-> free[((j - 1) \div 3) + 1]]]

\* C13: first() and the next() calls that follow visit at position k exactly
\* the cards that are not on positions 0..k-1, in ascending index whatever the
\* deck cursor of the receiver was, each at the rotations 0, 1, 2 in turn; the
\* receiver and the positions 0..k-1 of every successor stay as they were,
\* and next() gives no successor only after the last card at rotation 2.
\* rotate steps the rotation by one up to 2 and then reports exhaustion
\* without touching the placement.
C13_SuccessorChain ==
    q.op = "chain" =>
        LET k == q.before.nextOnBoard
            expected == ExpectedVisits(q.before)
            n == Len(q.visited)
        IN  /\ n <= Len(expected)
            /\ q.visited = SubSeq(expected, 1, n)
            /\ q.newstate = NULL => n = Len(expected)
            /\ BoardOf(heap, q.game) = q.before
            /\ q.newstate # NULL =>
                 LET b == BoardOf(heap, q.newstate)
                     last == heap.pcs[getLastAdded(heap, q.newstate)]
                     r == rotate(last)
                 IN  /\ n >= 1
                     /\ b.nextOnBoard = k + 1
                     /\ \A p \in Positions :
                          IF p < k THEN b.cards[p] = q.before.cards[p]
                          ELSE IF p = k
                               THEN /\ b.cards[p].present
                                    /\ b.cards[p].card = q.visited[n].card
                                    /\ b.cards[p].rotation = q.visited[n].rotation
                                    /\ b.cards[p].position = k
                               ELSE ~b.cards[p].present
                     /\ r.card.rotation \in Rotations
                     /\ IF last.rotation = 2
                        THEN ~r.ret /\ r.card = last
                        ELSE r.ret /\ r.card = [last EXCEPT !.rotation = last.rotation + 1]

C13_Witness ==
    /\ q.op = "chain"
    /\ q.newstate = NULL
    /\ q.before.nextOnBoard = 3
    /\ q.before.topOfTheDeck = 5
    /\ Len(q.visited) = 18

---------------------------------------------------------------------------
(* C14: the fill order *)

\* The positions 0..nextOnBoard-1 of a board hold a placement that knows its
\* index and has a rotation of 0..2, and the positions behind them are empty
FilledInOrder(g) ==
    LET n == heap.gs[g].nextOnBoard
    IN  /\ n \in 0 .. CARDS_IN_DECK
        /\ \A p \in Positions :
             LET c == heap.gs[g].cardsOnBoard[p]
             IN  IF p < n
                 THEN /\ c # NULL
                      /\ c \in DOMAIN heap.pcs
                      /\ heap.pcs[c].position = p
                      /\ heap.pcs[c].rotation \in Rotations
                      /\ heap.pcs[c].card \in CardIds
                 ELSE c = NULL

\* C14: every board the search holds is filled in ascending order of position
\* up to its fill index, which never exceeds 9; and first() on a board with
\* nine cards gives no successor and leaves the heap as it was, so nothing is
\* stored behind position 8.
C14_FillOrder ==
    /\ [](\A g \in LiveStates : FilledInOrder(g))
    /\ [][(status = "running" /\ Top.pc = "first"
              /\ heap.gs[Top.game].nextOnBoard = CARDS_IN_DECK)
          => (Top'.newstate = NULL /\ Top'.pc = "loop" /\ heap' = heap)]_vars

C14_Witness ==
    /\ status = "running"
    /\ Top.pc = "loop"
    /\ heap.gs[Top.game].nextOnBoard = CARDS_IN_DECK
    /\ Top.newstate = NULL

---------------------------------------------------------------------------
(* C15: pruning *)

\* The first m placements of a live board as an arrangement
PrefixOf(g, m) ==
    [p \in 1 .. m |-> <<Placement(heap, g, p - 1).card, Placement(heap, g, p - 1).rotation>>]

\* Every adjacency between two placed cards of the board interlocks
PartiallyConsistent(g) == Matches(PrefixOf(g, heap.gs[g].nextOnBoard))

\* C15: every call of solve, the root's included, starts with the partial
\* check; a board that fails it returns at once, with nothing printed and no
\* board derived from it, to a caller that stands before its next() call on
\* that very board; only boards that passed get as far as output and
\* first(); and on every board that exists all placements but the last one
\* interlock on every adjacency among them.
C15_PruningOnEveryEntry ==
    /\ [](\A g \in LiveStates :
              heap.gs[g].nextOnBoard >= 1 =>
                  Matches(PrefixOf(g, heap.gs[g].nextOnBoard - 1)))
    /\ [](status = "running" =>
              \A i \in 1 .. Len(stack) :
                  stack[i].pc \in {"report", "first", "loop", "next", "delete"}
                      => PartiallyConsistent(stack[i].game))
    /\ [][/\ Len(stack') > Len(stack) => Top'.pc = "entry"
          /\ (status = "running" /\ Top.pc = "entry") =>
                 IF PartiallyConsistent(Top.game)
                 THEN stack' = SetTop([Top EXCEPT !.pc = "report"])
                 ELSE /\ stack' = Pop
                      /\ out' = out
                      /\ heap' = heap
                      /\ Top'.pc = "next"
                      /\ Top'.newstate = Top.game]_vars

C15_Witness ==
    /\ status = "running"
    /\ Top.pc = "next"
    /\ heap.gs[Top.newstate].nextOnBoard >= 3
    /\ ~PartiallyConsistent(Top.newstate)

---------------------------------------------------------------------------
(* C16: the fatal path *)

\* The pairs of positions isSolved hands to getCommonEdge on a board: for
\* each row of the table whose two positions are filled, the position fields
\* of the two records found there
LookedUp(g) ==
    {<<heap.pcs[heap.gs[g].cardsOnBoard[NEIGHBORMAP[i][NMAP_FIRST]]].position,
       heap.pcs[heap.gs[g].cardsOnBoard[NEIGHBORMAP[i][NMAP_SECOND]]].position>> :
        i \in {j \in 1 .. NMAP_SIZE :
                 /\ heap.gs[g].cardsOnBoard[NEIGHBORMAP[j][NMAP_FIRST]] # NULL
                 /\ heap.gs[g].cardsOnBoard[NEIGHBORMAP[j][NMAP_SECOND]] # NULL}}

\* C16: in the run from the empty board every pair of positions that the
\* checks of a board hand to getCommonEdge is a row of the topology table,
\* getCommonEdge finds it, and the process never ends on the not-neighbors
\* error.
C16_NeverNotNeighbors ==
    /\ status # "exited"
    /\ (status = "running" /\ Top.pc \in {"entry", "report", "first"}) =>
           /\ LookedUp(Top.game) \subseteq TablePairs
           /\ \A pr \in LookedUp(Top.game) : ~getCommonEdge(pr[1], pr[2]).exited
           /\ \A partial \in BOOLEAN : ~isSolved(heap, Top.game, partial).exited

C16_Witness ==
    /\ status = "running"
    /\ Top.pc = "first"
    /\ heap.gs[Top.game].nextOnBoard = CARDS_IN_DECK
    /\ Cardinality(LookedUp(Top.game)) = NMAP_SIZE

---------------------------------------------------------------------------
(* C18: the life of a board *)

\* The pointers through which a frame is still to discard a board: main()
\* holds the root in game, a solve() call holds the child it works on in
\* newstate and, between next() and delete(), its predecessor in tempstate
Holds(f) ==
    (IF f.pc = "main_delete" THEN {f.game} ELSE {})
        \cup (IF f.pc \in {"loop", "next", "delete"} THEN {f.newstate} \ {NULL} ELSE {})
        \cup (IF f.pc = "delete" THEN {f.tempstate} ELSE {})

\* How many such pointers the frame has
HoldCount(f) ==
    (IF f.pc = "main_delete" THEN 1 ELSE 0)
        + (IF f.pc \in {"loop", "next", "delete"} /\ f.newstate # NULL THEN 1 ELSE 0)
        + (IF f.pc = "delete" THEN 1 ELSE 0)

RECURSIVE HoldCountUpTo(_)
HoldCountUpTo(i) == IF i = 0 THEN 0 ELSE HoldCount(stack[i]) + HoldCountUpTo(i - 1)

\* The boards that a step frees
Discarded == LiveStates \ DOMAIN heap'.gs

\* C18: the allocated boards are exactly those some frame still holds for
\* discarding, each held once, and every board a frame works on is among
\* them; the allocated placement records are exactly those of the allocated
\* boards. A step frees a board only as delete(tempstate) in the frame that
\* has just derived the next() successor from it, when no call works on it any
\* more, or as main's delete of the root after solve returned; it frees that
\* one board, which was allocated, together with its records. A first() or
\* next() that gives NULL leaves the heap as it found it. At exit the heap is
\* empty.
C18_BoardLifecycle ==
    /\ [](status = "running" =>
              /\ LiveStates = UNION {Holds(stack[i]) : i \in 1 .. Len(stack)}
              /\ Cardinality(LiveStates) = HoldCountUpTo(Len(stack))
              /\ \A i \in 1 .. Len(stack) : stack[i].game \in LiveStates
              /\ DOMAIN heap.pcs = UNION {RecordsOf(heap, g) : g \in LiveStates})
    /\ [](status = "done" => heap = EmptyHeap /\ stack = <<>>)
    /\ [][status = "running" =>
            /\ Discarded # {} =>
                 \/ /\ Top.pc = "delete"
                    /\ Discarded = {Top.tempstate}
                    /\ \A i \in 1 .. Len(stack) : stack[i].game # Top.tempstate
                    /\ Top.newstate # Top.tempstate
                    /\ DOMAIN heap'.pcs = DOMAIN heap.pcs \ RecordsOf(heap, Top.tempstate)
                 \/ /\ Top.pc = "main_delete"
                    /\ Len(stack) = 1
                    /\ Discarded = {Top.game}
                    /\ heap' = EmptyHeap
            /\ Top.pc = "delete" => Discarded = {Top.tempstate}
            /\ (Top.pc \in {"first", "next"} /\ status' = "running"
                    /\ Top'.newstate = NULL) => heap' = heap]_vars

C18_Witness ==
    /\ status = "running"
    /\ Top.pc = "loop"
    /\ Top.newstate # NULL
    /\ Top.tempstate # NULL
    /\ Top.tempstate \notin LiveStates
    /\ heap.gs[Top.newstate].nextOnBoard >= 2
    /\ Len(out) >= 1

---------------------------------------------------------------------------
(* C19: the two renderings side by side *)

\* The characters of a line, whatever calls wrote them
RECURSIVE LineText(_)
LineText(items) == IF items = <<>> THEN "" ELSE Head(items) \o LineText(Tail(items))

\* At each check of a board the C++ isSolved, under every iteration order of
\* its map, decides as the C isSolved does and leaves the map as it was, so
\* the C++ search takes the step the C search takes
C19_SameBoardStates ==
    (status = "running" /\ Top.pc \in {"entry", "report"}) =>
        \A partial \in BOOLEAN, nm \in Orders :
            LET c == isSolved(heap, Top.game, partial)
                r == isSolvedCpp(heap, nm, Top.game, partial, 1)
            IN  /\ ~c.exited /\ ~c.undefined /\ ~r.undefined
                /\ r.nm = nm
                /\ r.ret = c.ret

\* C19 as stated: from the empty board the C++ program, whatever the
\* iteration order of its map, goes through the boards the C program goes
\* through, and each line the C program prints is the line the C++ program
\* prints for that board.
C19_SameRun ==
    /\ []C19_SameBoardStates
    /\ [][Len(out') > Len(out) =>
              LineText(out'[Len(out')]) = LineText(outputCpp(heap, Top.game))]_vars

---------------------------------------------------------------------------
(* C20: the index of the last placement *)

\* C20: every board a frame is about to hand to next() has at least one
\* card, so the index nextOnBoard - 1 that getLastAdded computes in the 8-bit
\* type does not wrap to 255, lies inside the nine slots, and the slot holds a
\* live placement record with a card; the run never reads outside the array.
C20_NextOnNonEmptyBoard ==
    /\ status # "undefined"
    /\ status = "running" =>
           \A i \in 1 .. Len(stack) :
               stack[i].pc = "next" =>
                   LET newstate == stack[i].newstate
                   IN  /\ newstate \in LiveStates
                       /\ heap.gs[newstate].nextOnBoard >= 1
                       /\ LastIndex(heap, newstate) = heap.gs[newstate].nextOnBoard - 1
                       /\ ~OutOfBounds(heap, newstate)
                       /\ getLastAdded(heap, newstate) # NULL
                       /\ getLastAdded(heap, newstate) \in DOMAIN heap.pcs
                       /\ heap.pcs[getLastAdded(heap, newstate)].card \in CardIds

C20_Witness ==
    /\ status = "running"
    /\ Top.pc = "delete"
    /\ Top.newstate # NULL
    /\ heap.gs[Top.tempstate].nextOnBoard = 1
    /\ heap.pcs[getLastAdded(heap, Top.newstate)].rotation = 1

=============================================================================
